---- MODULE Spec2Model ----
(***************************************************************************)
(* Model of server/lib/call.js: CallConversation (turn taking, history,    *)
(* call log) on top of WebCall (frame intake, audio buffering, sends).     *)
(*                                                                         *)
(* One action is one run-to-completion step of the JavaScript event loop:  *)
(* the arrival of a websocket frame, a call of begin(), the firing of      *)
(* begin's timer, the websocket's close event, or the resumption of an     *)
(* async function after one of the external promises it awaits             *)
(* (stt.transcribe, assistant.createResponse, assistant.textToSpeech) has  *)
(* resolved.  The external promises resolve in any order.                  *)
(*                                                                         *)
(* Audio is kept run-length encoded: a buffer is a sequence of segments    *)
(* [src, from, len] standing for samples from..from+len-1 of the chunk     *)
(* numbered src (src = 0: the zero fill of a fresh Float32Array).          *)
(* Timestamps and the measured durations of _profileIt are left out.       *)
(*                                                                         *)
(* The environment is bounded by budget: the number of inputs (frames and  *)
(* calls of begin) still to come, and how many of the frames may lie       *)
(* outside the protocol (chunks of other than 1024 samples, text other     *)
(* than EOS and INT), and how often a session may call begin.  An input    *)
(* that starts an awaited call or a timer is taken only while at most      *)
(* budget.pending of them are in flight.                                   *)
(***************************************************************************)
EXTENDS Integers, Sequences, FiniteSets, TLC

\* ------------------------------------------------------------------ bounds
MaxInputs == 4          \* frames received and calls of begin(), one session
MaxOdd == 1             \* of these, frames outside the protocol
MaxInputsShared == 3    \* frames received and calls of begin(), two sessions
MaxPending == 1         \* awaited calls and timers in flight that an input may add to
MaxInputsDialogue == 5  \* frames received and calls of begin(), a dialogue kept to the protocol

\* --------------------------------------------------------------- constants
START_LISTENING_TOKEN == "RDY"
END_OF_SPEECH_TOKEN == "EOS"
INTERRUPT_TOKEN == "INT"
CLEAR_BUFFER_TOKEN == "CLR"
ChunkSize == 1024

Sessions == {1, 2}
Assistants == {"a1", "a2"}

\* lengths (in samples) of the binary frames a client sends
ChunkLens == {1000, 1024, 1100}
\* textToSpeech(text): the audio depends on the text alone; the n-th text
\* spoken gets 2500, 1024, 0, 2500, ... samples
SpeechLen(n) == <<2500, 1024, 0>>[((n - 1) % 3) + 1]
\* text frames a client sends
TextFrames == {"EOS", "INT", "RDY", "CLR", "hello", "callEnded", "userMessage", "error"}
EventNames == TextFrames \cup {"callEnded", "userMessage", "error"}
\* selectedTool values createResponse returns ("" = none)
Tools == {"", "endCall", "transferCall"}

\* message contents: [k, n]; n tells apart the transcripts and the replies
Text(k, n) == [k |-> k, n |-> n]
Undefined == Text("undefined", 0)
Interrupted == Text("[Interrupted your last message]", 0)
OpeningMessage == Text("speakFirstOpeningMessage", 0)
SystemPrompt == [role |-> "system", content |-> Text("prompt", 0)]

VARIABLES
  assistants,   \* the Assistant objects: prompt array, speakFirst, speakFirstOpeningMessage
  session,      \* per session: the fields of its CallConversation, WebCall and websocket
  live,         \* the sessions that have been constructed
  budget        \* inputs still to come: [inputs, odd, begins, pending]

vars == <<assistants, session, live, budget>>

\* ------------------------------------------------------------------- audio
Seg(src, from, len) == [src |-> src, from |-> from, len |-> len]

BufLen(buf) ==
  LET RECURSIVE Sum(_)
      Sum(b) == IF b = <<>> THEN 0 ELSE Head(b).len + Sum(Tail(b))
  IN Sum(buf)

\* new Float32Array(n): n zero samples
Float32Array(n) == IF n = 0 THEN <<>> ELSE <<Seg(0, 0, n)>>

\* samples [a, b) of buf
RECURSIVE Slice(_, _, _)
Slice(buf, a, b) ==
  IF buf = <<>> \/ b <= 0 \/ a >= b THEN <<>>
  ELSE LET h == Head(buf)
           lo == IF a > 0 THEN a ELSE 0
           hi == IF b < h.len THEN b ELSE h.len
           part == IF lo < hi
                   THEN <<Seg(h.src, IF h.src = 0 THEN 0 ELSE h.from + lo, hi - lo)>>
                   ELSE <<>>
       IN part \o Slice(Tail(buf), a - h.len, b - h.len)

\* target.set(source, offset): throws a RangeError when source does not fit
TypedArraySet(target, source, offset) ==
  IF offset + BufLen(source) > BufLen(target)
  THEN [threw |-> TRUE, array |-> target]
  ELSE [threw |-> FALSE,
        array |-> Slice(target, 0, offset) \o source
                  \o Slice(target, offset + BufLen(source), BufLen(target))]

\* lines 204-208: the buffer handed to stt.transcribe
RECURSIVE CombineFrom(_, _, _)
CombineFrom(combinedAudio, data, i) ==
  IF i >= Len(data) THEN [threw |-> FALSE, array |-> combinedAudio]
  ELSE LET r == TypedArraySet(combinedAudio, data[i + 1], i * ChunkSize)
       IN IF r.threw THEN r ELSE CombineFrom(r.array, data, i + 1)

CombinedAudio(data) == CombineFrom(Float32Array(Len(data) * ChunkSize), data, 0)

\* the sample-wise concatenation of the chunks, in order
RECURSIVE Concat(_)
Concat(data) == IF data = <<>> THEN <<>> ELSE Head(data) \o Concat(Tail(data))

\* generateBeep(frequency, duration, sampleRate), duration in half seconds
generateBeep(frequency, halfSeconds, sampleRate) ==
  <<Seg(frequency, 0, (halfSeconds * sampleRate) \div 2)>>

textToSpeech(n) == Float32Array(0) \o (IF SpeechLen(n) = 0 THEN <<>> ELSE <<Seg(n, 0, SpeechLen(n))>>)

\* ------------------------------------------------------------------ frames
Frame(kind, tag, n, from, len, w) ==
  [kind |-> kind, tag |-> tag, n |-> n, from |-> from, len |-> len,
   ws |-> w.wsState, log |-> Len(w.callLog), hist |-> Len(w.history)]

\* ws.send(data): the frame is recorded with the socket's state and the
\* lengths of callLog and history at the send
WsSend(w, kind, tag, n, from, len) ==
  [w EXCEPT !.sent = Append(@, Frame(kind, tag, n, from, len, w))]

\* WebCall.pushMeta
pushMeta(w, tag, n) == WsSend(w, "meta", tag, n, 0, 0)

\* WebCall.pushAudio: audio is one segment list; frames of at most 1024
RECURSIVE PushAudioFrom(_, _, _, _)
PushAudioFrom(w, tag, audio, i) ==
  IF i >= BufLen(audio) THEN w
  ELSE LET piece == Slice(audio, i, i + ChunkSize)
       IN PushAudioFrom(WsSend(w, "audio", tag, piece[1].src, piece[1].from,
                               BufLen(piece)),
                        tag, audio, i + ChunkSize)

\* a pushAudio that sends the audio as one frame
pushAudio_whole(w, tag, audio) ==
  IF audio = <<>> THEN w
  ELSE WsSend(w, "audio", tag, audio[1].src, audio[1].from, BufLen(audio))

pushAudio(w, tag, audio) == PushAudioFrom(w, tag, audio, 0)

\* ws.close(): starts the closing handshake; a no-op when not open
WsClose(w) == IF w.wsState = "open" THEN [w EXCEPT !.wsState = "closing"] ELSE w

\* WebCall.end
end(w) == WsClose(pushAudio(w, "beep", generateBeep(180, 1, 24000)))

\* ---------------------------------------------------------- CallConversation
LogEntry(event, speaker, message, tool) ==
  [event |-> event, speaker |-> speaker, message |-> message, tool |-> tool]

\* a call log that puts the newest entry first (unshift for push)
addToCallLog_unshift(w, event, speaker, message, tool) ==
  [w EXCEPT !.callLog = <<LogEntry(event, speaker, message, tool)>> \o @]

\* lines 116-119
addToCallLog(w, event, speaker, message, tool) ==
  [w EXCEPT !.callLog = Append(@, LogEntry(event, speaker, message, tool))]

\* lines 126-130
noteWhatWasSaid(w, speaker, message) ==
  LET w1 == addToCallLog(w, "TRANSCRIPT", speaker, message, "")
      w2 == [w1 EXCEPT !.history = Append(@, [role |-> speaker, content |-> message])]
  IN pushMeta(w2, speaker, message.n)

\* EventEmitter.off(eventName, listener): removes one registration of listener
RECURSIVE RemoveListener(_, _)
RemoveListener(ls, listener) ==
  IF ls = <<>> THEN <<>>
  ELSE IF ls[Len(ls)] = listener THEN SubSeq(ls, 1, Len(ls) - 1)
  ELSE Append(RemoveListener(SubSeq(ls, 1, Len(ls) - 1), listener), ls[Len(ls)])

off(w, eventName, listener) ==
  [w EXCEPT !.listeners[eventName] = RemoveListener(@, listener)]

\* EventEmitter.on(eventName, listener)
on(w, eventName, listener) ==
  [w EXCEPT !.listeners[eventName] = Append(@, listener)]

\* lines 32-35
callEndedListener(w) ==
  LET w1 == addToCallLog(w, "CALL_ENDED", "", Undefined, "")
  IN [w1 EXCEPT !.onEndCalls = Append(@, Len(w1.callLog))]

\* an interrupt that also abandons the responses in flight
interruptListener_cancelling(w) ==
  LET w1 == noteWhatWasSaid(w, "user", Interrupted)
  IN [w1 EXCEPT !.handlers = [h \in DOMAIN @ |-> [@[h] EXCEPT !.pc = "done"]]]

\* an interrupt that also asks the client to clear its playback buffer
interruptListener_clearing(w) ==
  noteWhatWasSaid(pushMeta(w, CLEAR_BUFFER_TOKEN, 0), "user", Interrupted)

\* lines 36-38
interruptListener(w) == noteWhatWasSaid(w, "user", Interrupted)

\* a listener that requests the response before it notes the user's turn
userMessageListener_requestFirst(w, message) ==
  LET w1 == pushMeta(w, CLEAR_BUFFER_TOKEN, 0)
      w2 == noteWhatWasSaid(w1, "user", message)
  IN [w2 EXCEPT !.handlers = Append(@, [message |-> message,
                                         pc |-> "responseGeneration",
                                         content |-> Undefined,
                                         selectedTool |-> "",
                                         seen |-> Len(w1.history)])]

\* lines 76-82, up to the await of createResponse
userMessageListener(w, message) ==
  LET w1 == pushMeta(w, CLEAR_BUFFER_TOKEN, 0)
      w2 == noteWhatWasSaid(w1, "user", message)
  IN [w2 EXCEPT !.handlers = Append(@, [message |-> message,
                                         pc |-> "responseGeneration",
                                         content |-> Undefined,
                                         selectedTool |-> "",
                                         seen |-> Len(w2.history)])]

CallListener(w, listener, arg) ==
  CASE listener = "callEndedListener" -> callEndedListener(w)
    [] listener = "interruptListener" -> interruptListener(w)
    [] listener = "userMessageListener" -> userMessageListener(w, arg)
    [] OTHER -> w

RECURSIVE CallListeners(_, _, _)
CallListeners(w, ls, arg) ==
  IF ls = <<>> THEN w
  ELSE CallListeners(CallListener(w, Head(ls), arg), Tail(ls), arg)

\* an emitter on which the userMessage listener is registered from the start
emit_listeningFromStart(w, eventName, arg) ==
  IF eventName = "error" /\ w.listeners[eventName] = <<>>
  THEN [w EXCEPT !.rejections = @ + 1]
  ELSE IF eventName = "userMessage" /\ w.listeners[eventName] = <<>>
  THEN userMessageListener(w, arg)
  ELSE CallListeners(w, w.listeners[eventName], arg)

\* EventEmitter.emit: an "error" event without a listener throws
emit(w, eventName, arg) ==
  IF eventName = "error" /\ w.listeners[eventName] = <<>>
  THEN [w EXCEPT !.rejections = @ + 1]
  ELSE CallListeners(w, w.listeners[eventName], arg)

\* lines 74-109: registers the userMessage listener
startListening(w) == on(w, "userMessage", "userMessageListener")

\* tool handling that hangs up on every tool selected
ToolHandling_hangUpOnAnyTool(w, h) ==
  LET tool == w.handlers[h].selectedTool
      w1 == IF tool # "" THEN addToCallLog(w, "TOOL_SELECTED", "", Undefined, tool) ELSE w
      w2 == IF tool # ""
            THEN off(end(pushMeta(w1, "---- Assistant Hung Up ----", 0)),
                     "userMessage", "startListening")
            ELSE w1
  IN [w2 EXCEPT !.handlers[h].pc = "done"]

\* lines 92-107, for the handler at index h
ToolHandling(w, h) ==
  LET tool == w.handlers[h].selectedTool
      w1 == IF tool # "" THEN addToCallLog(w, "TOOL_SELECTED", "", Undefined, tool) ELSE w
      w2 == IF tool = "endCall"
            THEN off(end(pushMeta(w1, "---- Assistant Hung Up ----", 0)),
                     "userMessage", "startListening")
            ELSE w1
  IN [w2 EXCEPT !.handlers[h].pc = "done"]

\* ------------------------------------------------------------------ WebCall
\* lines 223-227
handleWebsocket_Audio(w, len) ==
  LET id == w.received + 1
  IN [w EXCEPT !.pendingSamples = Append(@, <<Seg(id, 0, len)>>),
               !.received = id]

\* an EOS handler without the test of line 202: an empty buffer is
\* transcribed like any other
handleWebsocket_Meta_flushEmpty(w, messageString) ==
  IF messageString = END_OF_SPEECH_TOKEN
  THEN [w EXCEPT !.flushes = Append(@, [data |-> w.pendingSamples,
                                         combinedAudio |-> CombinedAudio(w.pendingSamples).array,
                                         pc |-> "transcription"])]
  ELSE LET w1 == emit(w, messageString, Undefined)
       IN IF w1.rejections > w.rejections THEN w1
          ELSE [w1 EXCEPT !.diagnostics = @ + 1]

\* lines 199-221, up to the await of stt.transcribe
handleWebsocket_Meta(w, messageString) ==
  IF messageString = END_OF_SPEECH_TOKEN
  THEN IF Len(w.pendingSamples) > 0
       THEN LET data == w.pendingSamples
                combinedAudio == CombinedAudio(data)
            IN IF combinedAudio.threw
               THEN [w EXCEPT !.rejections = @ + 1]
               ELSE [w EXCEPT !.flushes = Append(@, [data |-> data,
                                                      combinedAudio |-> combinedAudio.array,
                                                      pc |-> "transcription"])]
       ELSE [w EXCEPT !.warnings = @ + 1]
  ELSE LET w1 == emit(w, messageString, Undefined)
       IN IF w1.rejections > w.rejections THEN w1
          ELSE [w1 EXCEPT !.diagnostics = @ + 1]

\* ------------------------------------------------------------------- state
\* the state of session s with its history dereferenced
World(s) == [session[s] EXCEPT !.history = assistants[session[s].assistant].prompt]

\* store w as the state of session s; history is the assistant's prompt array
Commit(s, w) ==
  /\ session' = [session EXCEPT ![s] = [w EXCEPT !.history = <<>>]]
  /\ assistants' = [assistants EXCEPT ![w.assistant].prompt = w.history]

\* lines 25-42 and 153-163: a constructed CallConversation
Constructed(a) ==
  [assistant |-> a,
   history |-> <<>>,
   callLog |-> <<LogEntry("INIT", "", Undefined, "")>>,
   onEndCalls |-> <<>>,
   listeners |-> [e \in EventNames |->
                    CASE e = "callEnded" -> <<"callEndedListener">>
                      [] e = INTERRUPT_TOKEN -> <<"interruptListener">>
                      [] OTHER -> <<>>],
   pendingSamples |-> <<>>,
   received |-> 0,
   flushes |-> <<>>,
   handlers |-> <<>>,
   begins |-> <<>>,
   wsState |-> "open",
   sttDestroyed |-> FALSE,
   sent |-> <<>>,
   warnings |-> 0,
   diagnostics |-> 0,
   rejections |-> 0]

\* the configurations of an assistant: silent, speaking a preset opening
\* line, speaking a generated one
AssistantObject ==
  {o \in [prompt : {<<SystemPrompt>>},
          speakFirst : BOOLEAN,
          speakFirstOpeningMessage : {Undefined, OpeningMessage}] :
     o.speakFirstOpeningMessage # Undefined => o.speakFirst}

Silent == [prompt |-> <<SystemPrompt>>, speakFirst |-> FALSE,
           speakFirstOpeningMessage |-> Undefined]

\* the inputs explored: the longest runs keep to the protocol and call begin
\* once; shorter runs have frames outside the protocol, or call begin again;
\* the shortest have an assistant that speaks first
Budgets(speaksFirst, inputs) ==
  IF speaksFirst
  THEN {[inputs |-> inputs - 2, odd |-> MaxOdd, begins |-> 1, pending |-> MaxPending]}
  ELSE {[inputs |-> inputs, odd |-> 0, begins |-> 1, pending |-> MaxPending],
        [inputs |-> inputs - 1, odd |-> MaxOdd, begins |-> 1, pending |-> MaxPending],
        [inputs |-> inputs - 1, odd |-> 0, begins |-> 2, pending |-> MaxPending]}

\* n sessions are constructed, session 1 with assistant a1
ConstructedSessions(n) ==
  /\ live = 1..n
  /\ \E f \in [Sessions -> Assistants] :
       /\ f[1] = "a1"
       /\ \A s \in Sessions \ live : f[s] = "a2"
       /\ session = [s \in Sessions |-> Constructed(f[s])]
       /\ assistants \in [Assistants -> AssistantObject]
       /\ \A a \in Assistants \ {f[s] : s \in live} : assistants[a] = Silent

InitWith(n, inputs) ==
  /\ ConstructedSessions(n)
  /\ budget \in Budgets(\E a \in Assistants : assistants[a].speakFirst, inputs)

Init == InitWith(1, MaxInputs)

\* ----------------------------------------------------------------- actions
Delivering(s) == s \in live /\ session[s].wsState \in {"open", "closing"}

\* the transcriptions, responses, syntheses and timers of w still to complete
Pending(w) ==
  Cardinality({i \in 1..Len(w.flushes) : w.flushes[i].pc # "done"})
  + Cardinality({h \in 1..Len(w.handlers) : w.handlers[h].pc # "done"})
  + Cardinality({b \in 1..Len(w.begins) : w.begins[b].pc # "done"})

\* an input that takes w to w2 is admitted when it adds no work in flight or
\* keeps the work in flight within the bound
Admitted(w, w2) == Pending(w2) <= Pending(w) \/ Pending(w2) <= budget.pending

\* the protocol's frames: 1024-sample chunks, "EOS" and "INT"
AudioInProtocol(len) == len = ChunkSize
TextInProtocol(m) == m \in {END_OF_SPEECH_TOKEN, INTERRUPT_TOKEN}

Affordable(inProtocol) ==
  /\ budget.inputs > 0
  /\ inProtocol \/ budget.odd > 0

Spend(inProtocol) ==
  budget' = [budget EXCEPT !.inputs = @ - 1,
                           !.odd = IF inProtocol THEN @ ELSE @ - 1]

\* a binary frame arrives (lines 191-193, 223-227)
RecvAudio(s, len) ==
  /\ Delivering(s) /\ Affordable(AudioInProtocol(len))
  /\ Commit(s, handleWebsocket_Audio(World(s), len))
  /\ Spend(AudioInProtocol(len))
  /\ UNCHANGED live

\* a text frame arrives (lines 194-196, 199-221)
RecvText(s, m) ==
  /\ Delivering(s) /\ Affordable(TextInProtocol(m))
  /\ Admitted(World(s), handleWebsocket_Meta(World(s), m))
  /\ Commit(s, handleWebsocket_Meta(World(s), m))
  /\ Spend(TextInProtocol(m))
  /\ UNCHANGED live

\* stt.transcribe resolves for flush i (lines 203, 211-212, 229-236)
TranscribeDone(s, i) ==
  /\ s \in live /\ i \in 1..Len(session[s].flushes)
  /\ session[s].flushes[i].pc = "transcription"
  /\ LET w1 == pushMeta(World(s), "time.transcription", 0)
         w2 == emit(w1, "userMessage", Text("transcript", i))
     IN Commit(s, [w2 EXCEPT !.pendingSamples = <<>>, !.flushes[i].pc = "done"])
  /\ UNCHANGED <<live, budget>>

\* createResponse resolves for handler h (lines 80-85, 92-107)
ResponseDone(s, h, hasContent, tool) ==
  /\ s \in live /\ h \in 1..Len(session[s].handlers)
  /\ session[s].handlers[h].pc = "responseGeneration"
  /\ LET w1 == pushMeta(World(s), "time.responseGeneration", 0)
         w2 == [w1 EXCEPT !.handlers[h].selectedTool = tool]
     IN IF hasContent
        THEN LET content == Text("reply", h)
                 w3 == noteWhatWasSaid(w2, "assistant", content)
             IN Commit(s, [w3 EXCEPT !.handlers[h].content = content,
                                     !.handlers[h].pc = "speechGeneration"])
        ELSE Commit(s, ToolHandling(w2, h))
  /\ UNCHANGED <<live, budget>>

\* textToSpeech resolves for handler h (lines 86-107)
SpeechDone(s, h) ==
  /\ s \in live /\ h \in 1..Len(session[s].handlers)
  /\ session[s].handlers[h].pc = "speechGeneration"
  /\ LET w1 == pushMeta(World(s), "time.speechGeneration", 0)
         w2 == pushAudio(w1, "speech", textToSpeech(h))
     IN Commit(s, ToolHandling(w2, h))
  /\ UNCHANGED <<live, budget>>

\* begin(delay, beep) is called (lines 48-52, 68-69)
Begin(s, beep) ==
  /\ s \in live /\ Affordable(TRUE)
  /\ Len(session[s].begins) < budget.begins
  /\ Pending(World(s)) < budget.pending
  /\ LET w == World(s)
         w1 == IF beep THEN pushAudio(w, "beep", generateBeep(440, 1, 24000)) ELSE w
     IN Commit(s, [w1 EXCEPT !.begins = Append(@, [pc |-> "timer",
                                                    firstMessage |-> Undefined])])
  /\ Spend(TRUE)
  /\ UNCHANGED live

\* a timer callback that sends RDY before it registers the listener and
\* logs READY
TimerFired_rdyFirst(s, b) ==
  /\ s \in live /\ b \in 1..Len(session[s].begins)
  /\ session[s].begins[b].pc = "timer"
  /\ LET a == assistants[session[s].assistant]
         w1 == pushMeta(World(s), START_LISTENING_TOKEN, 0)
         w2 == addToCallLog(startListening(w1), "READY", "", Undefined, "")
         w3 == pushMeta(w2, "--- Assistant Ready ---", 0)
     IN IF ~a.speakFirst
        THEN Commit(s, [w3 EXCEPT !.begins[b].pc = "done"])
        ELSE IF a.speakFirstOpeningMessage # Undefined
        THEN Commit(s, [noteWhatWasSaid(w3, "assistant", a.speakFirstOpeningMessage)
                          EXCEPT !.begins[b].pc = "firstSpeech",
                                 !.begins[b].firstMessage = a.speakFirstOpeningMessage])
        ELSE Commit(s, [w3 EXCEPT !.begins[b].pc = "firstResponse"])
  /\ UNCHANGED <<live, budget>>

\* the timer of begin b fires (lines 52-64)
TimerFired(s, b) ==
  /\ s \in live /\ b \in 1..Len(session[s].begins)
  /\ session[s].begins[b].pc = "timer"
  /\ LET a == assistants[session[s].assistant]
         w1 == addToCallLog(startListening(World(s)), "READY", "", Undefined, "")
         w2 == pushMeta(w1, "--- Assistant Ready ---", 0)
         w3 == pushMeta(w2, START_LISTENING_TOKEN, 0)
     IN IF ~a.speakFirst
        THEN Commit(s, [w3 EXCEPT !.begins[b].pc = "done"])
        ELSE IF a.speakFirstOpeningMessage # Undefined
        THEN Commit(s, [noteWhatWasSaid(w3, "assistant", a.speakFirstOpeningMessage)
                          EXCEPT !.begins[b].pc = "firstSpeech",
                                 !.begins[b].firstMessage = a.speakFirstOpeningMessage])
        ELSE Commit(s, [w3 EXCEPT !.begins[b].pc = "firstResponse"])
  /\ UNCHANGED <<live, budget>>

\* createResponse resolves for the opening line of begin b (lines 61-65)
FirstResponseDone(s, b, hasContent) ==
  /\ s \in live /\ b \in 1..Len(session[s].begins)
  /\ session[s].begins[b].pc = "firstResponse"
  /\ LET firstMessage == IF hasContent THEN Text("opening", b) ELSE Undefined
         w1 == noteWhatWasSaid(World(s), "assistant", firstMessage)
     IN Commit(s, [w1 EXCEPT !.begins[b].pc = "firstSpeech",
                             !.begins[b].firstMessage = firstMessage])
  /\ UNCHANGED <<live, budget>>

\* the audio textToSpeech resolves to for the opening line of begin b: no
\* samples for an opening line that is undefined
OpeningAudio(w, b) ==
  IF w.begins[b].firstMessage = Undefined THEN Float32Array(0) ELSE textToSpeech(b + 1)

\* textToSpeech resolves for the opening line of begin b (lines 65-66)
FirstSpeechDone(s, b) ==
  /\ s \in live /\ b \in 1..Len(session[s].begins)
  /\ session[s].begins[b].pc = "firstSpeech"
  /\ LET w1 == pushAudio(World(s), "opening", OpeningAudio(World(s), b))
     IN Commit(s, [w1 EXCEPT !.begins[b].pc = "done"])
  /\ UNCHANGED <<live, budget>>

\* the websocket's close event (lines 159-162)
CloseEvent(s) ==
  /\ Delivering(s)
  /\ LET w1 == [World(s) EXCEPT !.wsState = "closed"]
         w2 == emit(w1, "callEnded", Undefined)
     IN Commit(s, [w2 EXCEPT !.sttDestroyed = TRUE])
  /\ UNCHANGED <<live, budget>>

Next ==
  \/ \E s \in Sessions, len \in ChunkLens : RecvAudio(s, len)
  \/ \E s \in Sessions, m \in TextFrames : RecvText(s, m)
  \/ \E s \in Sessions : \E i \in 1..Len(session[s].flushes) : TranscribeDone(s, i)
  \/ \E s \in Sessions : \E h \in 1..Len(session[s].handlers), c \in BOOLEAN, t \in Tools :
       ResponseDone(s, h, c, t)
  \/ \E s \in Sessions : \E h \in 1..Len(session[s].handlers) : SpeechDone(s, h)
  \/ \E s \in Sessions, beep \in BOOLEAN : Begin(s, beep)
  \/ \E s \in Sessions : \E b \in 1..Len(session[s].begins) : TimerFired(s, b)
  \/ \E s \in Sessions : \E b \in 1..Len(session[s].begins), c \in BOOLEAN :
       FirstResponseDone(s, b, c)
  \/ \E s \in Sessions : \E b \in 1..Len(session[s].begins) : FirstSpeechDone(s, b)
  \/ \E s \in Sessions : CloseEvent(s)

Spec == Init /\ [][Next]_vars

InitShared == InitWith(2, MaxInputsShared)
SpecShared == InitShared /\ [][Next]_vars

\* one session whose client keeps to the protocol, calls begin once and has
\* one awaited call or timer in flight at a time: long enough for a second
\* utterance after the first has been answered
InitDialogue ==
  /\ ConstructedSessions(1)
  /\ budget = [inputs |-> IF assistants["a1"].speakFirst
                          THEN MaxInputsDialogue - 3 ELSE MaxInputsDialogue,
               odd |-> 0, begins |-> 1, pending |-> 1]
SpecDialogue == InitDialogue /\ [][Next]_vars

\* ------------------------------------------------------------ observations
History(s) == assistants[session[s].assistant].prompt

IsPrefix(p, q) == Len(p) <= Len(q) /\ SubSeq(q, 1, Len(p)) = p

Positions(seq, Test(_)) == {i \in 1..Len(seq) : Test(seq[i])}

IsCallEnded(e) == e.event = "CALL_ENDED"

Turn(role, content) == [role |-> role, content |-> content]

\* the chunks (by number) of a list of chunks
ChunkIds(data) == {data[j][1].src : j \in 1..Len(data)}

FlushInProgress(s) ==
  \E i \in 1..Len(session[s].flushes) : session[s].flushes[i].pc = "transcription"

ResponseInFlight(s) ==
  \E h \in 1..Len(session[s].handlers) : session[s].handlers[h].pc # "done"

EndCallSelected(s) ==
  \E h \in 1..Len(session[s].handlers) :
    /\ session[s].handlers[h].pc = "done"
    /\ session[s].handlers[h].selectedTool = "endCall"

\* ------------------------------------------------------------------ claims

\* C1: the buffer passed to stt.transcribe is the sample-wise concatenation
\* of the chunks received since the last flush, whatever their lengths: same
\* sample count, nothing overwritten, nothing padded.
C1_TranscribesConcatenation ==
  \A s \in live : \A i \in 1..Len(session[s].flushes) :
    session[s].flushes[i].combinedAudio = Concat(session[s].flushes[i].data)

\* C2: callLog never holds more than one CALL_ENDED entry and onEnd is never
\* invoked twice; once the connection has closed there is exactly one
\* CALL_ENDED entry and onEnd has been invoked exactly once.
C2_OneCallEnded ==
  \A s \in live :
    /\ Cardinality(Positions(session[s].callLog, IsCallEnded)) <= 1
    /\ Len(session[s].onEndCalls) <= 1
    /\ session[s].wsState = "closed" =>
         /\ Cardinality(Positions(session[s].callLog, IsCallEnded)) = 1
         /\ Len(session[s].onEndCalls) = 1

\* C3: once the connection has closed, CALL_ENDED has been appended and onEnd
\* invoked, no further entry is appended to callLog.
C3_NothingLoggedAfterEnd ==
  [][\A s \in live :
       (session[s].wsState = "closed" /\ session[s].onEndCalls # <<>>)
         => session'[s].callLog = session[s].callLog]_vars

\* C4: after the assistant has selected endCall the userMessage listener is
\* deregistered and no utterance-ready event is handled any more: no CLR is
\* sent, no turn is appended and no response is requested for it.
C4_DeafAfterEndCall ==
  [][\A s \in live :
       EndCallSelected(s) =>
         /\ session'[s].listeners["userMessage"] = <<>>
         /\ Len(session'[s].handlers) = Len(session[s].handlers)]_vars

\* C5: a text frame that is none of EOS, INT, RDY, CLR is informational:
\* handling it raises no error and leaves pendingSamples, history and callLog
\* unchanged, sends nothing and does not invoke the completion callback.
C5_UnknownTextIsInformational ==
  [][\A s \in live : \A m \in TextFrames \ {"EOS", "INT", "RDY", "CLR"} :
       RecvText(s, m) =>
         /\ session'[s].rejections = session[s].rejections
         /\ session'[s].pendingSamples = session[s].pendingSamples
         /\ History(s)' = History(s)
         /\ session'[s].callLog = session[s].callLog
         /\ session'[s].sent = session[s].sent
         /\ session'[s].onEndCalls = session[s].onEndCalls]_vars

\* C6: what one session handles never changes the history, callLog or
\* pendingSamples of another session: a session that takes no step keeps them.
C6_SessionsIsolated ==
  [][\A t \in live :
       session'[t] = session[t] => History(t)' = History(t)]_vars

\* C7: history and callLog are append-only: every step leaves the entries
\* they hold as an unchanged prefix.
C7_AppendOnly ==
  [][/\ \A s \in live : IsPrefix(session[s].callLog, session'[s].callLog)
     /\ \A s \in live : IsPrefix(History(s), History(s)')]_vars

\* C7 witness: a call log that has grown through begin, an utterance, a
\* response, a tool selection and the close.
C7_Witness ==
  \E s \in live :
    /\ {"INIT", "READY", "TRANSCRIPT", "TOOL_SELECTED", "CALL_ENDED"}
         \subseteq {session[s].callLog[i].event : i \in 1..Len(session[s].callLog)}
    /\ Len(History(s)) >= 3

\* C8: while a flush is in progress (its transcription awaited) no binary
\* frame is appended to pendingSamples and no second flush starts.
C8_FlushIsExclusive ==
  [][\A s \in live :
       FlushInProgress(s) =>
         /\ Len(session'[s].pendingSamples) <= Len(session[s].pendingSamples)
         /\ Len(session'[s].flushes) = Len(session[s].flushes)]_vars

\* C9: every chunk received is transcribed in at most one utterance, and
\* until then it stays in pendingSamples: none is discarded.
C9_ChunkTranscribedOnce ==
  \A s \in live : \A c \in 1..session[s].received :
    LET holders == {i \in 1..Len(session[s].flushes) :
                      c \in ChunkIds(session[s].flushes[i].data)}
    IN /\ Cardinality(holders) <= 1
       /\ holders = {} => c \in ChunkIds(session[s].pendingSamples)

HasEvent(s, event) ==
  \E i \in 1..Len(session[s].callLog) : session[s].callLog[i].event = event

\* the session has ended: the connection is closing or closed, or CALL_ENDED
\* has been logged
Ended(s) == session[s].wsState # "open" \/ HasEvent(s, "CALL_ENDED")

\* the frames sent by the step from the current state
NewSent(s) == SubSeq(session'[s].sent, Len(session[s].sent) + 1, Len(session'[s].sent))

\* the entries appended to callLog by the step from the current state
NewLog(s) == SubSeq(session'[s].callLog, Len(session[s].callLog) + 1, Len(session'[s].callLog))

IsMeta(f, tag) == f.kind = "meta" /\ f.tag = tag

\* C11: in every state in which the session has not ended exactly one
\* userMessage listener is registered: never zero, also between construction
\* and the firing of begin's timer, and never more than one, also after begin
\* has been called again.
C11_OneUtteranceListener ==
  \A s \in live : ~Ended(s) => Len(session[s].listeners["userMessage"]) = 1

\* C12: an EOS frame received while pendingSamples is empty starts no
\* transcription and emits no userMessage event, leaves pendingSamples empty
\* and history and callLog unchanged, records one warning and changes nothing
\* else, so that the session accepts later frames as before.
C12_EmptyEOSWarns ==
  [][\A s \in live :
       (session[s].pendingSamples = <<>> /\ RecvText(s, END_OF_SPEECH_TOKEN)) =>
         /\ session'[s].flushes = session[s].flushes
         /\ session'[s].handlers = session[s].handlers
         /\ session'[s].pendingSamples = <<>>
         /\ History(s)' = History(s)
         /\ session'[s].callLog = session[s].callLog
         /\ session'[s].warnings = session[s].warnings + 1
         /\ session'[s] = [session[s] EXCEPT !.warnings = @ + 1]]_vars

\* C12 witness: an EOS on an empty buffer was warned about, and the chunk
\* and the EOS that came after it are being transcribed.
C12_Witness ==
  \E s \in live :
    /\ session[s].warnings = 1
    /\ Len(session[s].flushes) = 1
    /\ session[s].flushes[1].pc = "transcription"
    /\ session[s].pendingSamples # <<>>

\* C13: right after a userMessage event has been emitted and its listeners
\* have run (a handler has started), pendingSamples is empty.
C13_BufferEmptyAfterUtterance ==
  [][\A s \in live :
       Len(session'[s].handlers) > Len(session[s].handlers)
         => session'[s].pendingSamples = <<>>]_vars

\* C14: an INT frame appends exactly one {user, "[Interrupted your last
\* message]"} turn to history and one TRANSCRIPT entry to callLog and does not
\* run the EOS pipeline: no CLR is sent, no transcription and no response is
\* requested, pendingSamples is unchanged; in every state, also before begin
\* has registered the userMessage listener.
C14_InterruptOnlyNotes ==
  [][\A s \in live :
       RecvText(s, INTERRUPT_TOKEN) =>
         /\ History(s)' = Append(History(s), Turn("user", Interrupted))
         /\ session'[s].callLog =
              Append(session[s].callLog, LogEntry("TRANSCRIPT", "user", Interrupted, ""))
         /\ \A k \in 1..Len(NewSent(s)) : ~IsMeta(NewSent(s)[k], CLEAR_BUFFER_TOKEN)
         /\ session'[s].flushes = session[s].flushes
         /\ session'[s].handlers = session[s].handlers
         /\ session'[s].pendingSamples = session[s].pendingSamples]_vars

\* C14 witness: an INT was noted before begin was ever called, with audio
\* buffered and left in the buffer.
C14_Witness ==
  \E s \in live :
    /\ session[s].begins = <<>>
    /\ session[s].listeners["userMessage"] = <<>>
    /\ session[s].pendingSamples # <<>>
    /\ session[s].flushes = <<>>
    /\ History(s) = <<SystemPrompt, Turn("user", Interrupted)>>
    /\ session[s].callLog[Len(session[s].callLog)] =
         LogEntry("TRANSCRIPT", "user", Interrupted, "")

\* the step from the current state completes handler h
Completes(s, h) ==
  /\ h \in 1..Len(session[s].handlers)
  /\ session[s].handlers[h].pc # "done"
  /\ session'[s].handlers[h].pc = "done"

\* C15: when the response names a tool other than endCall, callLog gains
\* exactly one TOOL_SELECTED entry with the tool's name; the connection is not
\* closed, no CALL_ENDED is logged, onEnd is not invoked and the userMessage
\* listener stays registered, so that the next utterance is handled like any
\* other.
C15_UnknownToolIsLogged ==
  [][\A s \in live : \A h \in 1..Len(session[s].handlers) :
       (Completes(s, h) /\ session'[s].handlers[h].selectedTool \notin {"", "endCall"}) =>
         /\ NewLog(s) = <<LogEntry("TOOL_SELECTED", "", Undefined,
                                   session'[s].handlers[h].selectedTool)>>
         /\ IsPrefix(session[s].callLog, session'[s].callLog)
         /\ session'[s].wsState = session[s].wsState
         /\ session'[s].onEndCalls = session[s].onEndCalls
         /\ session'[s].listeners = session[s].listeners
         /\ session'[s].pendingSamples = session[s].pendingSamples
         /\ session'[s].flushes = session[s].flushes]_vars

\* C15 witness: the first utterance was answered with transferCall; the
\* session is open and the second utterance has reached its own handler.
C15_Witness ==
  \E s \in live :
    /\ Len(session[s].handlers) = 2
    /\ session[s].handlers[1].pc = "done"
    /\ session[s].handlers[1].selectedTool = "transferCall"
    /\ session[s].handlers[2].message = Text("transcript", 2)
    /\ session[s].wsState = "open"
    /\ ~HasEvent(s, "CALL_ENDED")
    /\ session[s].callLog[Len(session[s].callLog) - 1] =
         LogEntry("TOOL_SELECTED", "", Undefined, "transferCall")
    /\ History(s)[Len(History(s))] = Turn("user", Text("transcript", 2))

\* the audio frames with this tag among frames
AudioFrames(frames, tag) ==
  LET Test(f) == f.kind = "audio" /\ f.tag = tag
  IN SelectSeq(frames, Test)

\* frames carry the samples of audio in order: consecutive pieces of 1024
\* samples, the last of 1 to 1024, none for an empty audio
WellChunked(frames, audio) ==
  /\ audio = <<>> => frames = <<>>
  /\ BufLen([k \in 1..Len(frames) |-> Seg(frames[k].n, frames[k].from, frames[k].len)])
       = BufLen(audio)
  /\ \A k \in 1..Len(frames) :
       /\ frames[k].n = audio[1].src
       /\ frames[k].from = audio[1].from + (k - 1) * ChunkSize
       /\ k < Len(frames) => frames[k].len = ChunkSize
       /\ k = Len(frames) => frames[k].len \in 1..ChunkSize

\* C16: pushAudio(samples) sends the samples as consecutive frames in order:
\* together they are the samples, every frame but the last holds 1024
\* samples, the last 1 to 1024, and nothing is sent for an empty input.
C16_PushAudioChunks ==
  [][\A s \in live :
       /\ \A h \in 1..Len(session[s].handlers) :
            SpeechDone(s, h) =>
              WellChunked(AudioFrames(NewSent(s), "speech"), textToSpeech(h))
       /\ \A b \in 1..Len(session[s].begins) :
            FirstSpeechDone(s, b) =>
              /\ WellChunked(AudioFrames(NewSent(s), "opening"), OpeningAudio(World(s), b))
              /\ NewSent(s) = AudioFrames(NewSent(s), "opening")
       /\ Begin(s, TRUE) =>
            /\ WellChunked(AudioFrames(NewSent(s), "beep"), generateBeep(440, 1, 24000))
            /\ NewSent(s) = AudioFrames(NewSent(s), "beep")
       /\ Begin(s, FALSE) => NewSent(s) = <<>>]_vars

\* C16 witness: a greeting tone of 12000 samples went out as 11 frames of
\* 1024 and one of 736, a first reply of 2500 samples as 1024, 1024, 452 and
\* a second reply of 1024 samples as one frame.
C16_Witness ==
  \E s \in live :
    LET beep == AudioFrames(session[s].sent, "beep")
        speech == AudioFrames(session[s].sent, "speech")
    IN /\ Len(beep) = 12 /\ beep[11].len = 1024 /\ beep[12].len = 736
       /\ [k \in 1..Len(speech) |-> speech[k].len] = <<1024, 1024, 452, 1024>>
       /\ [k \in 1..Len(speech) |-> speech[k].from] = <<0, 1024, 2048, 0>>

\* C16 witness for the empty input: the opening line's audio had no samples
\* and no frame was sent for it.
C16_WitnessEmpty ==
  \E s \in live : \E b \in 1..Len(session[s].begins) :
    /\ session[s].begins[b].pc = "done"
    /\ session[s].begins[b].firstMessage = Undefined
    /\ assistants[session[s].assistant].speakFirst
    /\ AudioFrames(session[s].sent, "opening") = <<>>

\* C17: when the response names endCall the steps come in this order:
\* TOOL_SELECTED is appended to callLog, the hangup line is sent, the
\* departure tone is sent, the connection is closed; and once endCall has
\* closed the connection nothing more is sent on it.
C17_EndCallOrder ==
  [][\A s \in live :
       /\ \A h \in 1..Len(session[s].handlers) :
            (Completes(s, h) /\ session'[s].handlers[h].selectedTool = "endCall") =>
              /\ NewLog(s) = <<LogEntry("TOOL_SELECTED", "", Undefined, "endCall")>>
              /\ \E k \in 1..Len(NewSent(s)) :
                   /\ IsMeta(NewSent(s)[k], "---- Assistant Hung Up ----")
                   /\ NewSent(s)[k].log = Len(session'[s].callLog)
                   /\ WellChunked(SubSeq(NewSent(s), k + 1, Len(NewSent(s))),
                                   generateBeep(180, 1, 24000))
                   /\ \A j \in k..Len(NewSent(s)) :
                        NewSent(s)[j].kind = (IF j = k THEN "meta" ELSE "audio")
                   /\ Len(NewSent(s)) > k
              /\ session'[s].wsState # "open"
       /\ (EndCallSelected(s) /\ session[s].wsState # "open") =>
            session'[s].sent = session[s].sent]_vars

\* C18: for every userMessage event handled, in this order: CLR is sent,
\* {user, transcript} is appended to history and logged, the response is
\* requested with a history that ends with this turn; when content comes
\* back, {assistant, content} is appended to history and logged before the
\* audio is sent; and when nothing else was appended in between, history
\* then ends with the user's turn and the assistant's.
C18_UtteranceOrder ==
  [][\A s \in live :
       /\ \A h \in (Len(session[s].handlers) + 1)..Len(session'[s].handlers) :
            LET hd == session'[s].handlers[h]
            IN /\ hd.seen \in (Len(History(s)) + 1)..Len(History(s)')
               /\ History(s)'[hd.seen] = Turn("user", hd.message)
               /\ \E k \in 1..Len(NewSent(s)) : \E j \in 1..Len(NewLog(s)) :
                    /\ IsMeta(NewSent(s)[k], CLEAR_BUFFER_TOKEN)
                    /\ NewSent(s)[k].hist = hd.seen - 1
                    /\ NewSent(s)[k].log = Len(session[s].callLog) + j - 1
                    /\ NewLog(s)[j] = LogEntry("TRANSCRIPT", "user", hd.message, "")
       /\ \A h \in 1..Len(session[s].handlers) :
            LET hd == session[s].handlers[h]
                content == session'[s].handlers[h].content
            IN /\ (hd.pc = "responseGeneration" /\ session'[s].handlers[h].pc = "speechGeneration") =>
                    /\ History(s)' = Append(History(s), Turn("assistant", content))
                    /\ NewLog(s) = <<LogEntry("TRANSCRIPT", "assistant", content, "")>>
                    /\ AudioFrames(NewSent(s), "speech") = <<>>
                    /\ hd.seen = Len(History(s)) =>
                         SubSeq(History(s)', Len(History(s)), Len(History(s)) + 1)
                           = <<Turn("user", hd.message), Turn("assistant", content)>>
               /\ (hd.pc = "speechGeneration" /\ session'[s].handlers[h].pc = "done") =>
                    \A k \in 1..Len(NewSent(s)) :
                      (NewSent(s)[k].kind = "audio" /\ NewSent(s)[k].tag = "speech") =>
                        \E i \in 1..NewSent(s)[k].hist :
                          /\ i > hd.seen
                          /\ History(s)[i] = Turn("assistant", hd.content)]_vars

\* C18 witness: one utterance answered with nothing in between: CLR, the
\* user's turn, the assistant's turn, then the audio.
C18_Witness ==
  \E s \in live :
    /\ Len(session[s].handlers) = 1
    /\ session[s].handlers[1].pc = "done"
    /\ History(s) = <<SystemPrompt, Turn("user", Text("transcript", 1)),
                      Turn("assistant", Text("reply", 1))>>
    /\ \E k, j \in 1..Len(session[s].sent) :
         /\ k < j
         /\ IsMeta(session[s].sent[k], CLEAR_BUFFER_TOKEN)
         /\ session[s].sent[k].hist = 1
         /\ session[s].sent[j].kind = "audio" /\ session[s].sent[j].tag = "speech"
         /\ session[s].sent[j].hist = 3

\* the step from the current state moves begin b from pc to another place
Leaves(s, b, pc) ==
  /\ b \in 1..Len(session[s].begins)
  /\ session[s].begins[b].pc = pc
  /\ session'[s].begins[b].pc # pc

\* C19: begin does its steps in this order: the greeting tone, when enabled,
\* is sent at the call; when the delay has elapsed the userMessage listener
\* is registered, READY is appended to callLog and only then RDY is sent; an
\* assistant that speaks first has {assistant, line} appended to history and
\* logged as TRANSCRIPT after RDY and before the line's audio is sent.
C19_BeginOrder ==
  [][\A s \in live :
       /\ Len(session'[s].begins) > Len(session[s].begins) =>
            /\ NewSent(s) = AudioFrames(NewSent(s), "beep")
            /\ NewSent(s) # <<>> => WellChunked(NewSent(s), generateBeep(440, 1, 24000))
            /\ session'[s].listeners = session[s].listeners
            /\ NewLog(s) = <<>>
       /\ \A b \in 1..Len(session[s].begins) :
            /\ Leaves(s, b, "timer") =>
                 /\ session'[s].listeners["userMessage"]
                      = Append(session[s].listeners["userMessage"], "userMessageListener")
                 /\ NewLog(s)[1] = LogEntry("READY", "", Undefined, "")
                 /\ \E k \in 1..Len(NewSent(s)) :
                      /\ IsMeta(NewSent(s)[k], START_LISTENING_TOKEN)
                      /\ NewSent(s)[k].log = Len(session[s].callLog) + 1
                      /\ NewSent(s)[k].hist = Len(History(s))
                      /\ \A j \in 1..Len(NewSent(s)) :
                           /\ NewSent(s)[j].kind = "meta"
                           /\ IsMeta(NewSent(s)[j], "assistant") =>
                                /\ j > k
                                /\ NewSent(s)[j].log = Len(session[s].callLog) + 2
                                /\ NewSent(s)[j].hist = Len(History(s)) + 1
                 /\ IF session'[s].begins[b].pc = "firstSpeech"
                    THEN /\ History(s)' = Append(History(s),
                                                 Turn("assistant", session'[s].begins[b].firstMessage))
                         /\ NewLog(s)[2] = LogEntry("TRANSCRIPT", "assistant",
                                                    session'[s].begins[b].firstMessage, "")
                         /\ Len(NewLog(s)) = 2
                    ELSE History(s)' = History(s) /\ Len(NewLog(s)) = 1
            /\ Leaves(s, b, "firstResponse") =>
                 /\ History(s)' = Append(History(s),
                                         Turn("assistant", session'[s].begins[b].firstMessage))
                 /\ NewLog(s) = <<LogEntry("TRANSCRIPT", "assistant",
                                           session'[s].begins[b].firstMessage, "")>>
                 /\ AudioFrames(NewSent(s), "opening") = <<>>
            /\ Leaves(s, b, "firstSpeech") =>
                 /\ HasEvent(s, "READY")
                 /\ \E k \in 1..Len(session[s].sent) :
                      IsMeta(session[s].sent[k], START_LISTENING_TOKEN)
                 /\ \E i \in 1..Len(History(s)) :
                      History(s)[i] = Turn("assistant", session[s].begins[b].firstMessage)
                 /\ NewSent(s) = AudioFrames(NewSent(s), "opening")
                 /\ NewLog(s) = <<>>]_vars

\* C19 witness: begin with the greeting tone for an assistant that speaks a
\* preset line first: tone, READY, the banner and RDY, the line noted, its
\* audio.
C19_Witness ==
  \E s \in live :
    /\ Len(session[s].begins) = 1
    /\ session[s].begins[1].pc = "done"
    /\ session[s].begins[1].firstMessage = OpeningMessage
    /\ [k \in 1..Len(session[s].callLog) |-> session[s].callLog[k].event]
         = <<"INIT", "READY", "TRANSCRIPT">>
    /\ History(s) = <<SystemPrompt, Turn("assistant", OpeningMessage)>>
    /\ [k \in 1..Len(session[s].sent) |-> session[s].sent[k].tag]
         = [k \in 1..12 |-> "beep"]
           \o <<"--- Assistant Ready ---", START_LISTENING_TOKEN, "assistant", "opening">>

\* C20: before READY has been appended to callLog no utterance reaches the
\* conversation: no CLR is sent, no response is requested and no transcript
\* is appended to history or callLog; a flush that completes then leaves
\* history and callLog as they are and still clears pendingSamples.
C20_NoUtteranceBeforeReady ==
  [][\A s \in live :
       ~HasEvent(s, "READY") =>
         /\ session'[s].handlers = session[s].handlers
         /\ \A k \in 1..Len(NewSent(s)) : ~IsMeta(NewSent(s)[k], CLEAR_BUFFER_TOKEN)
         /\ \A j \in 1..Len(NewLog(s)) :
              NewLog(s)[j].event = "TRANSCRIPT" =>
                NewLog(s)[j].message.k \notin {"transcript", "undefined"}
         /\ \A i \in (Len(History(s)) + 1)..Len(History(s)') :
              History(s)'[i].content.k \notin {"transcript", "undefined"}
         /\ \A i \in 1..Len(session[s].flushes) :
              (session[s].flushes[i].pc = "transcription"
                /\ session'[s].flushes[i].pc = "done") =>
                  /\ session'[s].pendingSamples = <<>>
                  /\ History(s)' = History(s)
                  /\ session'[s].callLog = session[s].callLog]_vars

\* C20 witness: a chunk was buffered and flushed and its transcription
\* resolved before begin's timer fired: the utterance left no trace and the
\* buffer is empty.
C20_Witness ==
  \E s \in live :
    /\ ~HasEvent(s, "READY")
    /\ session[s].received > 0
    /\ Len(session[s].flushes) = 1
    /\ session[s].flushes[1].pc = "done"
    /\ session[s].pendingSamples = <<>>
    /\ session[s].handlers = <<>>
    /\ History(s) = <<SystemPrompt>>
    /\ Len(session[s].callLog) = 1
    /\ Len(session[s].begins) = 1

====
